---- MODULE Spec2Model ----
(***************************************************************************)
(* Job lifecycle of the payment-gated agent service (src/main.py).         *)
(*                                                                         *)
(* The service is a single asyncio event loop.  A coroutine runs without   *)
(* interleaving until it awaits something that suspends:                   *)
(*  - submit_tx awaits verify_transaction_pay_to_address, which awaits the *)
(*    HTTP GET: other requests and tasks run while the call is in flight;  *)
(*  - handle_payment_status and force_run await execute_crew_task, whose   *)
(*    body holds no await (crew.kickoff is a plain call, lines 84-107):    *)
(*    the event loop is held until the crew returns or raises, so nothing  *)
(*    else runs while a task is executing.  The task is still modelled in  *)
(*    two steps, before and after the crew call, so that the job it has    *)
(*    marked running is a state of the model.                              *)
(***************************************************************************)
EXTENDS Integers, Sequences, FiniteSets

\* ---------------------------------------------------------------- bounds --
MaxJobs == 2
MaxSubmits == 2
NumIds == 3

\* ------------------------------------------------------------- constants --
DefaultPaymentAmount == 10000000

\* Python's None, and a key that a dict does not hold.
None == "None"
Absent == "absent"

\* The ids uuid4 may draw; DOMAIN jobs is the part already registered.
JobIds == 1 .. NumIds

SellerAddr == "addr_seller"
OtherAddr == "addr_other"

\* ------------------------------------------------- the external ledger ----
\* Transaction outputs as Blockfrost reports them for /txs/{hash}/utxos.
TxHashes == {"txA", "txB", "txC"}

Lovelace(q) == [unit |-> "lovelace", quantity |-> q]

LedgerOutputs(tx_hash) ==
    CASE tx_hash = "txA" -> << [address |-> SellerAddr, amount |-> << Lovelace(15000000) >>] >>
      [] tx_hash = "txB" -> << [address |-> SellerAddr, amount |-> << Lovelace(3000000) >>] >>
      [] tx_hash = "txC" -> << [address |-> SellerAddr, amount |-> << Lovelace(6000000) >>],
                               [address |-> OtherAddr, amount |-> << Lovelace(9000000) >>],
                               [address |-> SellerAddr,
                                amount |-> << [unit |-> "token", quantity |-> 5], Lovelace(6000000) >>] >>

\* What the HTTP GET of the verifier yields: the outputs, or an exception.
FetchError == [failed |-> TRUE, outputs |-> << >>]
Fetched(tx_hash) == [failed |-> FALSE, outputs |-> LedgerOutputs(tx_hash)]
Responses(tx_hash) == {FetchError, Fetched(tx_hash)}

\* ------------------------------------------------------ Chain Verifier ----
RECURSIVE LovelaceValues(_)
LovelaceValues(amount) ==
    IF amount = << >> THEN << >>
    ELSE (IF Head(amount).unit = "lovelace" THEN << Head(amount).quantity >> ELSE << >>)
         \o LovelaceValues(Tail(amount))

RECURSIVE MatchingOutputs(_, _)
MatchingOutputs(outputs, seller_address) ==
    IF outputs = << >> THEN << >>
    ELSE (IF Head(outputs).address = seller_address
          THEN [i \in 1 .. Len(LovelaceValues(Head(outputs).amount)) |->
                   [address |-> Head(outputs).address,
                    value |-> LovelaceValues(Head(outputs).amount)[i]]]
          ELSE << >>)
         \o MatchingOutputs(Tail(outputs), seller_address)

RECURSIVE SumValues(_)
SumValues(matching) ==
    IF matching = << >> THEN 0 ELSE Head(matching).value + SumValues(Tail(matching))

verify_transaction_pay_to_address(response, seller_address, min_lovelace) ==
    IF response.failed
    THEN [ok |-> FALSE,
          details |-> [error |-> "fetch failed"]]
    ELSE LET matching == MatchingOutputs(response.outputs, seller_address)
             received == SumValues(matching)
         IN [ok |-> received >= min_lovelace,
             details |-> [received |-> received, matching_outputs |-> matching,
                          required |-> min_lovelace]]

\* --------------------------------------------------------------- inputs ---
Texts == {"", "draft a reply to Alice"}

\* input_data is a dict[str, str]: the "text" key may be missing.
EmptyDict == [k \in {} |-> ""]

InputDatas == {EmptyDict} \cup {[text |-> t] : t \in Texts}

HasKey(d, k) == k \in DOMAIN d

StartJobRequests ==
    {[identifier_from_purchaser |-> "purchaser_1", input_data |-> d] : d \in InputDatas}

\* What the crew returns (a CrewOutput, given by its raw text) or raises.
CrewResults == {"reply text"}
CrewErrors == {"crew failed"}
CrewOutcomes == {[raised |-> FALSE, value |-> r] : r \in CrewResults}
                \cup {[raised |-> TRUE, value |-> e] : e \in CrewErrors}

\* ---------------------------------------------------------------- state ---
VARIABLES
    jobs,               \* main.py: jobs, job id -> job dict
    payment_instances,  \* main.py: payment_instances, the ids holding a Masumi Payment
    tx_logs,            \* main.py: tx_logs, job id -> verified transaction
    SELLER_ADDRESS,     \* the process environment: None when not configured
    requests,           \* submit_tx calls that reached the verifier, in call order
    tasks,              \* the handle_payment_status tasks created, in creation order
    crew_calls,         \* who has invoked execute_crew_task
    event               \* the step just taken and, for a request, its response

vars == << jobs, payment_instances, tx_logs, SELLER_ADDRESS, requests, tasks,
           crew_calls, event >>

NoBody == [status |-> None, payment_status |-> None, result |-> None, tx |-> << >>]

Event(op, job_id, code, body) == [op |-> op, job_id |-> job_id, code |-> code, body |-> body]

NewJob(data) ==
    [status |-> "awaiting_payment",
     payment_status |-> "pending",
     tx_hash |-> None,
     input_data |-> data.input_data,
     result |-> None,
     identifier_from_purchaser |-> data.identifier_from_purchaser,
     error |-> Absent,
     tx |-> << >>,
     nft |-> << >>]

Init ==
    /\ jobs = [j \in {} |-> NewJob([identifier_from_purchaser |-> "", input_data |-> EmptyDict])]
    /\ payment_instances = {}
    /\ tx_logs = [j \in {} |-> [tx_hash |-> None]]
    /\ SELLER_ADDRESS \in {None, SellerAddr}
    /\ requests = << >>
    /\ tasks = << >>
    /\ crew_calls = {}
    /\ event = Event("startup", 0, 0, NoBody)

\* d[k] = v on a dict: the key is added when it is new.
DictSet(d, k, v) == [x \in DOMAIN d \cup {k} |-> IF x = k THEN v ELSE d[x]]

\* The event loop is free: no task is inside the crew call.
LoopFree == \A t \in DOMAIN tasks : tasks[t].pc # "executing"

\* ------------------------------------------------------------ start_job ---
\* start_job drawing an id that may already be registered.
start_job_overwrite(data) ==
    /\ LoopFree
    /\ IF ~HasKey(data.input_data, "text")
       THEN /\ event' = Event("start_job", 0, 400, NoBody)
            /\ UNCHANGED << jobs, payment_instances, tx_logs, SELLER_ADDRESS, requests,
                            tasks, crew_calls >>
       ELSE /\ Cardinality(DOMAIN jobs) < MaxJobs
            /\ \E job_id \in JobIds :
                  /\ jobs' = DictSet(jobs, job_id, NewJob(data))
                  /\ event' = Event("start_job", job_id, 200,
                                    [NoBody EXCEPT !.status = "pending_payment"])
            /\ UNCHANGED << payment_instances, tx_logs, SELLER_ADDRESS, requests, tasks,
                            crew_calls >>

\* start_job that opens a Masumi payment for the job it registers.
start_job_tracked(data) ==
    /\ LoopFree
    /\ IF ~HasKey(data.input_data, "text")
       THEN /\ event' = Event("start_job", 0, 400, NoBody)
            /\ UNCHANGED << jobs, payment_instances, tx_logs, SELLER_ADDRESS, requests,
                            tasks, crew_calls >>
       ELSE /\ Cardinality(DOMAIN jobs) < MaxJobs
            /\ \E job_id \in JobIds \ DOMAIN jobs :
                  /\ jobs' = DictSet(jobs, job_id, NewJob(data))
                  /\ payment_instances' = payment_instances \cup {job_id}
                  /\ event' = Event("start_job", job_id, 200,
                                    [NoBody EXCEPT !.status = "pending_payment"])
            /\ UNCHANGED << tx_logs, SELLER_ADDRESS, requests, tasks, crew_calls >>

start_job(data) ==
    /\ LoopFree
    /\ IF ~HasKey(data.input_data, "text")
       THEN \* KeyError at data.input_data["text"] -> HTTP 400, before jobs[job_id] is set
            /\ event' = Event("start_job", 0, 400, NoBody)
            /\ UNCHANGED << jobs, payment_instances, tx_logs, SELLER_ADDRESS, requests,
                            tasks, crew_calls >>
       ELSE /\ Cardinality(DOMAIN jobs) < MaxJobs
            /\ \E job_id \in JobIds \ DOMAIN jobs :
                  /\ jobs' = DictSet(jobs, job_id, NewJob(data))
                  /\ event' = Event("start_job", job_id, 200,
                                    [NoBody EXCEPT !.status = "pending_payment"])
            /\ UNCHANGED << payment_instances, tx_logs, SELLER_ADDRESS, requests, tasks,
                            crew_calls >>

\* ------------------------------------------------------------ submit_tx ---
\* submit_tx without the registry lookup of line 277.
submit_tx_unchecked(job_id, tx_hash) ==
    /\ LoopFree
    /\ IF SELLER_ADDRESS = None
       THEN /\ event' = Event("submit_tx", job_id, 500, NoBody)
            /\ UNCHANGED << jobs, payment_instances, tx_logs, SELLER_ADDRESS, requests,
                            tasks, crew_calls >>
       ELSE /\ Len(requests) < MaxSubmits
            /\ requests' = Append(requests,
                                  [job_id |-> job_id, tx_hash |-> tx_hash,
                                   seller_address |-> SELLER_ADDRESS,
                                   required |-> DefaultPaymentAmount,
                                   pc |-> "verifying", ok |-> FALSE])
            /\ event' = Event("submit_tx_await", job_id, 0, NoBody)
            /\ UNCHANGED << jobs, payment_instances, tx_logs, SELLER_ADDRESS, tasks,
                            crew_calls >>

\* submit_tx without the SELLER_ADDRESS check of lines 281-282.
submit_tx_unconfigured(job_id, tx_hash) ==
    /\ LoopFree
    /\ IF job_id \notin DOMAIN jobs
       THEN /\ event' = Event("submit_tx", job_id, 404, NoBody)
            /\ UNCHANGED << jobs, payment_instances, tx_logs, SELLER_ADDRESS, requests,
                            tasks, crew_calls >>
       ELSE /\ Len(requests) < MaxSubmits
            /\ requests' = Append(requests,
                                  [job_id |-> job_id, tx_hash |-> tx_hash,
                                   seller_address |-> SELLER_ADDRESS,
                                   required |-> DefaultPaymentAmount,
                                   pc |-> "verifying", ok |-> FALSE])
            /\ event' = Event("submit_tx_await", job_id, 0, NoBody)
            /\ UNCHANGED << jobs, payment_instances, tx_logs, SELLER_ADDRESS, tasks,
                            crew_calls >>

\* Lines 277-286: up to the await of the verification call.
submit_tx(job_id, tx_hash) ==
    /\ LoopFree
    /\ IF job_id \notin DOMAIN jobs
       THEN /\ event' = Event("submit_tx", job_id, 404, NoBody)
            /\ UNCHANGED << jobs, payment_instances, tx_logs, SELLER_ADDRESS, requests,
                            tasks, crew_calls >>
       ELSE IF SELLER_ADDRESS = None
       THEN /\ event' = Event("submit_tx", job_id, 500, NoBody)
            /\ UNCHANGED << jobs, payment_instances, tx_logs, SELLER_ADDRESS, requests,
                            tasks, crew_calls >>
       ELSE /\ Len(requests) < MaxSubmits
            /\ requests' = Append(requests,
                                  [job_id |-> job_id, tx_hash |-> tx_hash,
                                   seller_address |-> SELLER_ADDRESS,
                                   required |-> DefaultPaymentAmount,
                                   pc |-> "verifying", ok |-> FALSE])
            /\ event' = Event("submit_tx_await", job_id, 0, NoBody)
            /\ UNCHANGED << jobs, payment_instances, tx_logs, SELLER_ADDRESS, tasks,
                            crew_calls >>

\* submit_tx that spawns the execution phase only for a job still in
\* awaiting_payment: a proof accepted for any other job records the payment
\* and returns.
submit_tx_verified_guarded(i, response) ==
    /\ LoopFree
    /\ requests[i].pc = "verifying"
    /\ LET r == requests[i]
           job_id == r.job_id
           verification == verify_transaction_pay_to_address(response, r.seller_address,
                                                             r.required)
       IN /\ requests' = [requests EXCEPT ![i].pc = "returned", ![i].ok = verification.ok]
          /\ IF ~verification.ok
             THEN /\ jobs' = [jobs EXCEPT ![job_id].payment_status = "failed",
                                          ![job_id].status = "failed"]
                  /\ event' = Event("submit_tx", job_id, 200,
                                    [NoBody EXCEPT !.status = "failed"])
                  /\ UNCHANGED << tx_logs, tasks >>
             ELSE /\ jobs' = [jobs EXCEPT ![job_id].payment_status = "completed",
                                          ![job_id].tx_hash = r.tx_hash]
                  /\ tx_logs' = DictSet(tx_logs, job_id,
                                        [tx_hash |-> r.tx_hash,
                                         verified |-> verification.details])
                  /\ tasks' = IF jobs[job_id].status = "awaiting_payment"
                              THEN Append(tasks, [job_id |-> job_id, payment_id |-> r.tx_hash,
                                                  pc |-> "scheduled"])
                              ELSE tasks
                  /\ event' = Event("submit_tx", job_id, 200,
                                    [NoBody EXCEPT !.status = "accepted"])
    /\ UNCHANGED << payment_instances, SELLER_ADDRESS, crew_calls >>

\* Lines 286-301: the verification call returns and the handler runs to its end.
submit_tx_verified(i, response) ==
    /\ LoopFree
    /\ requests[i].pc = "verifying"
    /\ LET r == requests[i]
           job_id == r.job_id
           verification == verify_transaction_pay_to_address(response, r.seller_address,
                                                             r.required)
       IN /\ requests' = [requests EXCEPT ![i].pc = "returned", ![i].ok = verification.ok]
          /\ IF ~verification.ok
             THEN /\ jobs' = [jobs EXCEPT ![job_id].payment_status = "failed",
                                          ![job_id].status = "failed"]
                  /\ event' = Event("submit_tx", job_id, 200,
                                    [NoBody EXCEPT !.status = "failed"])
                  /\ UNCHANGED << tx_logs, tasks >>
             ELSE /\ jobs' = [jobs EXCEPT ![job_id].payment_status = "completed",
                                          ![job_id].tx_hash = r.tx_hash]
                  /\ tx_logs' = DictSet(tx_logs, job_id,
                                        [tx_hash |-> r.tx_hash,
                                         verified |-> verification.details])
                  /\ tasks' = Append(tasks, [job_id |-> job_id, payment_id |-> r.tx_hash,
                                             pc |-> "scheduled"])
                  /\ event' = Event("submit_tx", job_id, 200,
                                    [NoBody EXCEPT !.status = "accepted"])
    /\ UNCHANGED << payment_instances, SELLER_ADDRESS, crew_calls >>

\* ----------------------------------------------------------- force_run ----
force_run(data, outcome) ==
    /\ LoopFree
    /\ crew_calls' = crew_calls \cup
                       {[entry |-> "force_run", job_id |-> 0]}
    /\ event' = Event("force_run", 0, IF outcome.raised THEN 500 ELSE 200,
                      [NoBody EXCEPT !.result = IF outcome.raised THEN None ELSE outcome.value])
    /\ UNCHANGED << jobs, payment_instances, tx_logs, SELLER_ADDRESS, requests, tasks >>

\* ------------------------------------------------ handle_payment_status ---
mint_certificate_nft_mock(owner_address, metadata) ==
    [policy_id |-> "mockpolicy1234567890",
     token_name |-> << "Certificate-", metadata.job_id >>,
     owner |-> owner_address,
     metadata |-> metadata]

\* Lines 173-180: the task starts, marks the job running and awaits the crew.
handle_payment_status_start(t) ==
    /\ LoopFree
    /\ tasks[t].pc = "scheduled"
    /\ LET job_id == tasks[t].job_id
       IN /\ jobs' = [jobs EXCEPT ![job_id].status = "running"]
          /\ crew_calls' = crew_calls \cup
                             {[entry |-> "handle_payment_status", job_id |-> job_id]}
    /\ tasks' = [tasks EXCEPT ![t].pc = "executing"]
    /\ event' = Event("task_start", tasks[t].job_id, 0, NoBody)
    /\ UNCHANGED << payment_instances, tx_logs, SELLER_ADDRESS, requests >>

\* handle_payment_status whose success path stops after the crew call: lines
\* 197-200 are never reached.
handle_payment_status_finish_lost(t, outcome) ==
    /\ tasks[t].pc = "executing"
    /\ IF outcome.raised
       THEN jobs' = [jobs EXCEPT ![tasks[t].job_id].status = "failed",
                                 ![tasks[t].job_id].error = outcome.value]
       ELSE jobs' = jobs
    /\ payment_instances' = payment_instances \ {tasks[t].job_id}
    /\ tasks' = [tasks EXCEPT ![t].pc = "done"]
    /\ event' = Event("task_end", tasks[t].job_id, 0,
                      [NoBody EXCEPT !.result = IF outcome.raised THEN None ELSE outcome.value])
    /\ UNCHANGED << tx_logs, SELLER_ADDRESS, requests, crew_calls >>

\* handle_payment_status whose except clause omits line 225.
handle_payment_status_finish_noerror(t, outcome) ==
    /\ tasks[t].pc = "executing"
    /\ LET job_id == tasks[t].job_id
           \* CERT_OWNER_ADDRESS is taken as unset, and the verified details of
           \* tx_logs hold no "address" key: both operands of the `or` are None.
           owner == None
           metadata == [job_id |-> job_id,
                        identifier |-> jobs[job_id].identifier_from_purchaser]
           completed == [jobs EXCEPT
                           ![job_id].status = "completed",
                           ![job_id].payment_status = "completed",
                           ![job_id].result = outcome.value,
                           ![job_id].tx = IF job_id \in DOMAIN tx_logs
                                          THEN << tx_logs[job_id] >> ELSE @]
       IN IF outcome.raised
          THEN jobs' = [jobs EXCEPT ![job_id].status = "failed"]
          ELSE \E minted \in BOOLEAN :
                  IF minted
                  THEN jobs' = [completed EXCEPT
                                  ![job_id].nft = << mint_certificate_nft_mock(
                                                       IF owner = None THEN "unknown" ELSE owner,
                                                       metadata) >>]
                  ELSE jobs' = completed
    /\ payment_instances' = payment_instances \ {tasks[t].job_id}
    /\ tasks' = [tasks EXCEPT ![t].pc = "done"]
    /\ event' = Event("task_end", tasks[t].job_id, 0,
                      [NoBody EXCEPT !.result = IF outcome.raised THEN None ELSE outcome.value])
    /\ UNCHANGED << tx_logs, SELLER_ADDRESS, requests, crew_calls >>

\* handle_payment_status without the inner try/except of lines 207-213: what
\* the certificate step raises reaches the except clause of line 222.
handle_payment_status_finish_strict(t, outcome) ==
    /\ tasks[t].pc = "executing"
    /\ LET job_id == tasks[t].job_id
           \* CERT_OWNER_ADDRESS is taken as unset, and the verified details of
           \* tx_logs hold no "address" key: both operands of the `or` are None.
           owner == None
           metadata == [job_id |-> job_id,
                        identifier |-> jobs[job_id].identifier_from_purchaser]
           completed == [jobs EXCEPT
                           ![job_id].status = "completed",
                           ![job_id].payment_status = "completed",
                           ![job_id].result = outcome.value,
                           ![job_id].tx = IF job_id \in DOMAIN tx_logs
                                          THEN << tx_logs[job_id] >> ELSE @]
       IN IF outcome.raised
          THEN jobs' = [jobs EXCEPT ![job_id].status = "failed",
                                    ![job_id].error = outcome.value]
          ELSE \E minted \in BOOLEAN :
                  IF minted
                  THEN jobs' = [completed EXCEPT
                                  ![job_id].nft = << mint_certificate_nft_mock(
                                                       IF owner = None THEN "unknown" ELSE owner,
                                                       metadata) >>]
                  ELSE jobs' = [completed EXCEPT ![job_id].status = "failed",
                                            ![job_id].error = "mint failed"]
    /\ payment_instances' = payment_instances \ {tasks[t].job_id}
    /\ tasks' = [tasks EXCEPT ![t].pc = "done"]
    /\ event' = Event("task_end", tasks[t].job_id, 0,
                      [NoBody EXCEPT !.result = IF outcome.raised THEN None ELSE outcome.value])
    /\ UNCHANGED << tx_logs, SELLER_ADDRESS, requests, crew_calls >>

\* Lines 180-233: the crew returns or raises and the task runs to its end.  The
\* completion call of the payment monitor (lines 190-195, only for a job in
\* payment_instances) and the certificate (lines 207-213) sit in their own
\* try/except: what they raise is logged, and a certificate that was not
\* minted leaves the "nft" key as it was.
handle_payment_status_finish(t, outcome) ==
    /\ tasks[t].pc = "executing"
    /\ LET job_id == tasks[t].job_id
           \* CERT_OWNER_ADDRESS is taken as unset, and the verified details of
           \* tx_logs hold no "address" key: both operands of the `or` are None.
           owner == None
           metadata == [job_id |-> job_id,
                        identifier |-> jobs[job_id].identifier_from_purchaser]
           completed == [jobs EXCEPT
                           ![job_id].status = "completed",
                           ![job_id].payment_status = "completed",
                           ![job_id].result = outcome.value,
                           ![job_id].tx = IF job_id \in DOMAIN tx_logs
                                          THEN << tx_logs[job_id] >> ELSE @]
       IN IF outcome.raised
          THEN jobs' = [jobs EXCEPT ![job_id].status = "failed",
                                    ![job_id].error = outcome.value]
          ELSE \E minted \in BOOLEAN :
                  IF minted
                  THEN jobs' = [completed EXCEPT
                                  ![job_id].nft = << mint_certificate_nft_mock(
                                                       IF owner = None THEN "unknown" ELSE owner,
                                                       metadata) >>]
                  ELSE jobs' = completed
    /\ payment_instances' = payment_instances \ {tasks[t].job_id}
    /\ tasks' = [tasks EXCEPT ![t].pc = "done"]
    /\ event' = Event("task_end", tasks[t].job_id, 0,
                      [NoBody EXCEPT !.result = IF outcome.raised THEN None ELSE outcome.value])
    /\ UNCHANGED << tx_logs, SELLER_ADDRESS, requests, crew_calls >>

\* ----------------------------------------------------------- get_status ---
\* What check_payment_status leaves in payment_status: a status, or the
\* "unknown" / "error" of the two except clauses.
MonitorStatuses == {"pending", "completed", "unknown", "error"}

StatusView(job) ==
    [status |-> job.status,
     payment_status |-> job.payment_status,
     result |-> IF job.result # None THEN job.result ELSE None,
     tx |-> job.tx]

\* get_status that refreshes payment_status whether or not the job is in
\* payment_instances.
get_status_refreshing(job_id) ==
    /\ LoopFree
    /\ IF job_id \notin DOMAIN jobs
       THEN /\ event' = Event("get_status", job_id, 404, NoBody)
            /\ UNCHANGED << jobs, payment_instances, tx_logs, SELLER_ADDRESS, requests,
                            tasks, crew_calls >>
       ELSE /\ \E s \in MonitorStatuses : jobs' = [jobs EXCEPT ![job_id].payment_status = s]
            /\ event' = Event("get_status", job_id, 200, StatusView(jobs'[job_id]))
            /\ UNCHANGED << payment_instances, tx_logs, SELLER_ADDRESS, requests, tasks,
                            crew_calls >>

get_status(job_id) ==
    /\ LoopFree
    /\ IF job_id \notin DOMAIN jobs
       THEN /\ event' = Event("get_status", job_id, 404, NoBody)
            /\ UNCHANGED << jobs, payment_instances, tx_logs, SELLER_ADDRESS, requests,
                            tasks, crew_calls >>
       ELSE /\ IF job_id \in payment_instances
               THEN \E s \in MonitorStatuses : jobs' = [jobs EXCEPT ![job_id].payment_status = s]
               ELSE jobs' = jobs
            /\ event' = Event("get_status", job_id, 200, StatusView(jobs'[job_id]))
            /\ UNCHANGED << payment_instances, tx_logs, SELLER_ADDRESS, requests, tasks,
                            crew_calls >>

\* ------------------------------------------------------- static probes ----
check_availability ==
    /\ LoopFree
    /\ event' = Event("availability", 0, 200, [NoBody EXCEPT !.status = "available"])
    /\ UNCHANGED << jobs, payment_instances, tx_logs, SELLER_ADDRESS, requests, tasks,
                    crew_calls >>

input_schema ==
    /\ LoopFree
    /\ event' = Event("input_schema", 0, 200, NoBody)
    /\ UNCHANGED << jobs, payment_instances, tx_logs, SELLER_ADDRESS, requests, tasks,
                    crew_calls >>

health ==
    /\ LoopFree
    /\ event' = Event("health", 0, 200, [NoBody EXCEPT !.status = "healthy"])
    /\ UNCHANGED << jobs, payment_instances, tx_logs, SELLER_ADDRESS, requests, tasks,
                    crew_calls >>

\* -------------------------------------------------------- specification ---
Next ==
    \/ \E data \in StartJobRequests : start_job(data)
    \/ \E job_id \in JobIds, tx_hash \in TxHashes : submit_tx(job_id, tx_hash)
    \/ \E i \in DOMAIN requests :
          \E response \in Responses(requests[i].tx_hash) : submit_tx_verified(i, response)
    \/ \E t \in DOMAIN tasks : handle_payment_status_start(t)
    \/ \E t \in DOMAIN tasks, outcome \in CrewOutcomes : handle_payment_status_finish(t, outcome)
    \/ \E job_id \in JobIds : get_status(job_id)
    \/ \E data \in StartJobRequests, outcome \in CrewOutcomes : force_run(data, outcome)
    \/ check_availability
    \/ input_schema
    \/ health

Spec == Init /\ [][Next]_vars

\* The event loop runs every task it was handed (asyncio.create_task), and the
\* crew call of a running task returns or raises.
TaskIds == 1 .. MaxSubmits

FairSpec ==
    /\ Spec
    /\ \A t \in TaskIds : WF_vars(t \in DOMAIN tasks /\ handle_payment_status_start(t))
    /\ \A t \in TaskIds :
          WF_vars(t \in DOMAIN tasks
                  /\ \E outcome \in CrewOutcomes : handle_payment_status_finish(t, outcome))

\* ============================================================== claims ====
\* The execution phases ever triggered for a job (asyncio.create_task).
PhasesOf(j) == {t \in DOMAIN tasks : tasks[t].job_id = j}

\* The proof submissions for a job whose verification has returned with ok.
ReturnedProofs(j, ok) ==
    {i \in DOMAIN requests :
        requests[i].job_id = j /\ requests[i].pc = "returned" /\ requests[i].ok = ok}

Rank(status) ==
    CASE status = "awaiting_payment" -> 0
      [] status = "running" -> 1
      [] status \in {"completed", "failed"} -> 2

\* C1: in every reachable state, every registered job has a non-null result
\* if and only if its status is completed.
C1_ResultIffCompleted ==
    \A j \in DOMAIN jobs : (jobs[j].result # None) <=> (jobs[j].status = "completed")

\* C2: in every reachable state, every registered job has its error field set
\* if and only if its status is failed.
C2_ErrorIffFailed ==
    \A j \in DOMAIN jobs : (jobs[j].error # Absent) <=> (jobs[j].status = "failed")

\* C3: for every job at most one execution phase is ever triggered, however
\* many proofs are submitted for it.
C3_AtMostOnePhase ==
    \A j \in DOMAIN jobs : Cardinality(PhasesOf(j)) <= 1

\* C4: when a proof submission whose verification reported ok = false returns,
\* the job is failed with payment_status failed, and from then on no execution
\* phase is triggered for that job.
C4_FailedProofBlocksExecution ==
    [][ /\ (event'.op = "submit_tx" /\ event'.body.status = "failed")
           => /\ jobs'[event'.job_id].status = "failed"
              /\ jobs'[event'.job_id].payment_status = "failed"
        /\ \A j \in DOMAIN jobs :
              ReturnedProofs(j, FALSE) # {} => PhasesOf(j)' = PhasesOf(j) ]_vars

\* C5: no step moves a job's status to an earlier rank of
\* awaiting_payment < running < {completed, failed}.
C5_StatusNeverRegresses ==
    [][ \A j \in DOMAIN jobs : Rank(jobs'[j].status) >= Rank(jobs[j].status) ]_vars

\* C6: completed and failed are terminal: a job in either status keeps that
\* status in every later state.
C6_TerminalStatusStays ==
    [][ \A j \in DOMAIN jobs :
           jobs[j].status \in {"completed", "failed"} => jobs'[j].status = jobs[j].status ]_vars

\* C7: once a job's tx_hash is set it keeps that value in every later state.
C7_TxHashImmutable ==
    [][ \A j \in DOMAIN jobs :
           jobs[j].tx_hash # None => jobs'[j].tx_hash = jobs[j].tx_hash ]_vars

\* C8: every invocation of the task executor happens inside an execution phase
\* of a registered job for which a proof submission obtained ok = true and
\* recorded payment_status completed and the tx_hash.
C8_ExecutionOnlyAfterVerifiedPayment ==
    \A c \in crew_calls :
        /\ c.entry = "handle_payment_status"
        /\ c.job_id \in DOMAIN jobs
        /\ ReturnedProofs(c.job_id, TRUE) # {}
        /\ jobs[c.job_id].tx_hash # None
        /\ c.job_id \in DOMAIN tx_logs

\* C9: a submit_tx or get_status addressed to an id that is not registered
\* answers 404 and changes nothing: no verification call, no execution phase,
\* no job created or modified.
C9_UnknownIdNoEffect ==
    [][ (/\ event'.op \in {"submit_tx", "submit_tx_await", "get_status"}
         /\ event'.job_id \notin DOMAIN jobs)
        => /\ event'.code = 404
           /\ event'.body = NoBody
           /\ UNCHANGED << jobs, payment_instances, tx_logs, requests, tasks, crew_calls >> ]_vars

\* A proof submission for an unregistered id has been answered while a job is
\* registered and another submission is in flight.
C9_Witness ==
    /\ event.op = "submit_tx"
    /\ event.code = 404
    /\ event.job_id \notin DOMAIN jobs
    /\ DOMAIN jobs # {}
    /\ requests # << >>

\* C10: start_job with input_data whose text is missing or empty answers 400
\* and leaves the registry as it was.
C10_EmptyTextRejected ==
    [][ \A data \in StartJobRequests :
           (/\ ~HasKey(data.input_data, "text") \/ data.input_data.text = ""
            /\ start_job(data))
           => (event'.code = 400 /\ jobs' = jobs) ]_vars

Terminal == {"completed", "failed"}

\* C11: every execution phase triggered by an accepted proof ends, leaving the
\* job in a terminal status, when the event loop runs its tasks and the crew
\* call returns; and a phase whose crew call returned a result leaves the job
\* with a status view of completed carrying that result.
C11_AcceptedJobTerminates ==
    /\ \A t \in TaskIds :
          (t \in DOMAIN tasks)
          ~> (/\ t \in DOMAIN tasks
              /\ tasks[t].pc = "done"
              /\ jobs[tasks[t].job_id].status \in Terminal)
    /\ [][ (event'.op = "task_end" /\ event'.body.result # None)
           => /\ StatusView(jobs'[event'.job_id]).status = "completed"
              /\ StatusView(jobs'[event'.job_id]).result = event'.body.result ]_vars

\* An accepted proof's phase has ended with the crew's result on the job.
C11_Witness ==
    \E t \in DOMAIN tasks :
        /\ tasks[t].pc = "done"
        /\ event.op = "task_end"
        /\ event.job_id = tasks[t].job_id
        /\ event.body.result # None
        /\ jobs[tasks[t].job_id].status = "completed"
        /\ jobs[tasks[t].job_id].result # None

\* C12: whenever an execution phase of a job is in progress (the job was set
\* running and the crew call has not returned), the status view of that job
\* is running with a null result.
C12_MidExecutionViewIsRunning ==
    \A t \in DOMAIN tasks :
        tasks[t].pc = "executing"
        => /\ StatusView(jobs[tasks[t].job_id]).status = "running"
           /\ StatusView(jobs[tasks[t].job_id]).result = None

\* C13: a submit_tx for a registered job while SELLER_ADDRESS is not
\* configured answers 500 and changes nothing: no verification call, no
\* execution phase, the job's fields as they were.
C13_UnconfiguredPayeeNoEffect ==
    [][ (/\ event'.op \in {"submit_tx", "submit_tx_await"}
         /\ event'.job_id \in DOMAIN jobs
         /\ SELLER_ADDRESS = None)
        => /\ event'.code = 500
           /\ event'.body = NoBody
           /\ UNCHANGED << jobs, payment_instances, tx_logs, requests, tasks, crew_calls >> ]_vars

\* A proof submission for a registered job has been answered 500.
C13_Witness ==
    /\ event.op = "submit_tx"
    /\ event.code = 500
    /\ event.job_id \in DOMAIN jobs
    /\ SELLER_ADDRESS = None
    /\ jobs[event.job_id].status = "awaiting_payment"
    /\ jobs[event.job_id].tx_hash = None
    /\ requests = << >>

\* C14: a start_job answered 200 adds exactly one job, under an id that was
\* not registered, in awaiting_payment with payment_status pending and null
\* tx_hash and result, and leaves every registered job as it was.
C14_StartJobInsertsOneFreshJob ==
    [][ (event'.op = "start_job" /\ event'.code = 200)
        => /\ event'.job_id \notin DOMAIN jobs
           /\ DOMAIN jobs' = DOMAIN jobs \cup {event'.job_id}
           /\ jobs'[event'.job_id].status = "awaiting_payment"
           /\ jobs'[event'.job_id].payment_status = "pending"
           /\ jobs'[event'.job_id].tx_hash = None
           /\ jobs'[event'.job_id].result = None
           /\ \A j \in DOMAIN jobs : jobs'[j] = jobs[j] ]_vars

\* A second job has just been registered beside one that has already moved on.
C14_Witness ==
    /\ event.op = "start_job"
    /\ event.code = 200
    /\ jobs[event.job_id].status = "awaiting_payment"
    /\ \E k \in DOMAIN jobs \ {event.job_id} : jobs[k].status = "completed"

\* C15: when submit_tx returns "accepted", the job has payment_status
\* completed, the tx_hash and the verification record stored, the phase it
\* spawned has not taken a step, and the job's status is still
\* awaiting_payment.
C15_AcceptedBeforeExecution ==
    (event.op = "submit_tx" /\ event.body.status = "accepted")
    => /\ jobs[event.job_id].payment_status = "completed"
       /\ jobs[event.job_id].tx_hash # None
       /\ event.job_id \in DOMAIN tx_logs
       /\ tx_logs[event.job_id].tx_hash = jobs[event.job_id].tx_hash
       /\ tasks # << >>
       /\ tasks[Len(tasks)].job_id = event.job_id
       /\ tasks[Len(tasks)].pc = "scheduled"
       /\ jobs[event.job_id].status = "awaiting_payment"

\* C16: the step that ends a phase whose crew call raised leaves the job
\* failed with the error message set and its result as it was, and answers
\* no request.
C16_ExecutorFailureRecorded ==
    [][ (event'.op = "task_end" /\ event'.body.result = None)
        => /\ jobs'[event'.job_id].status = "failed"
           /\ jobs'[event'.job_id].error \in CrewErrors
           /\ jobs'[event'.job_id].result = jobs[event'.job_id].result
           /\ event'.code = 0
           /\ requests' = requests ]_vars

\* A phase has ended on a raising crew call.
C16_Witness ==
    /\ event.op = "task_end"
    /\ event.body.result = None
    /\ jobs[event.job_id].status = "failed"
    /\ jobs[event.job_id].error \in CrewErrors
    /\ jobs[event.job_id].result = None

\* C17: the step that ends a phase whose crew call returned leaves the job
\* completed with the result set and no error added, whether or not the
\* certificate was minted and the payment monitor notified.
C17_SideStepsNeverFailJob ==
    [][ (event'.op = "task_end" /\ event'.body.result # None)
        => /\ jobs'[event'.job_id].status = "completed"
           /\ jobs'[event'.job_id].result = event'.body.result
           /\ jobs'[event'.job_id].error = jobs[event'.job_id].error ]_vars

\* A phase has ended completed although its certificate was not minted.
C17_Witness ==
    /\ event.op = "task_end"
    /\ event.body.result # None
    /\ jobs[event.job_id].status = "completed"
    /\ jobs[event.job_id].result # None
    /\ jobs[event.job_id].nft = << >>

C19_RunningOrCompletedIsPaid ==
    \A j \in DOMAIN jobs :
        jobs[j].status \in {"running", "completed"} => jobs[j].payment_status = "completed"

\* C20: no payment tracking handle is ever held, so a get_status step, for a
\* registered id or not, leaves every job, the handle table and the
\* transaction log as they were.
C20_GetStatusReadOnly ==
    /\ [](payment_instances = {})
    /\ [][ event'.op = "get_status"
           => UNCHANGED << jobs, payment_instances, tx_logs, SELLER_ADDRESS, requests, tasks,
                           crew_calls >> ]_vars

\* The status of a job that has been paid and completed has been read.
C20_Witness ==
    /\ event.op = "get_status"
    /\ event.code = 200
    /\ event.body.status = "completed"
    /\ event.body.payment_status = "completed"
    /\ event.body.result # None
    /\ event.job_id \in DOMAIN tx_logs

\* C21: a proof submission whose verification returns ok = true spawns exactly
\* one execution phase, for its job, whatever the job's status; one whose
\* verification returns ok = false spawns none; no other step spawns a phase;
\* so in every reachable state the number of phases spawned for a job equals
\* the number of its successful verifications.
C21_PhasesEqualSuccessfulVerifications ==
    /\ [](\A j \in DOMAIN jobs :
            Cardinality(PhasesOf(j)) = Cardinality(ReturnedProofs(j, TRUE)))
    /\ [][ IF event'.op = "submit_tx" /\ event'.body.status = "accepted"
           THEN tasks' = Append(tasks, [job_id |-> event'.job_id,
                                        payment_id |-> jobs'[event'.job_id].tx_hash,
                                        pc |-> "scheduled"])
           ELSE /\ Len(tasks') = Len(tasks)
                /\ \A t \in DOMAIN tasks : tasks'[t].job_id = tasks[t].job_id ]_vars

\* A second proof has just been accepted for a job that its first phase had
\* already completed: two successful verifications, two phases.
C21_Witness ==
    /\ event.op = "submit_tx"
    /\ event.body.status = "accepted"
    /\ jobs[event.job_id].status = "completed"
    /\ Cardinality(ReturnedProofs(event.job_id, TRUE)) = 2
    /\ Cardinality(PhasesOf(event.job_id)) = 2
    /\ tasks[Len(tasks)].pc = "scheduled"

====
